---------------------------- MODULE Spec2Model ----------------------------
(***************************************************************************)
(* DataWise multi-tenant database access broker.                           *)
(*                                                                         *)
(* The model follows the repository's sources: the service code shown in   *)
(* MULTI_TENANT_ARCHITECTURE.md and in the MongoDB integration notes       *)
(* (unnamed/part_003), the MongoDB initialisation script (unnamed/part_000)*)
(* and the front end's API client.  Components whose code is not part of   *)
(* the sources (pool, session ledger internals, cache read path) follow    *)
(* the design specification and are marked so in MODEL_MAP.json.           *)
(*                                                                         *)
(* One specification per component keeps the state spaces apart:           *)
(*   SpecRateSeq / SpecRate  rate limiter (sequential / interleaved calls) *)
(*   SpecCache               cache layer                                   *)
(*   SpecSession             session ledger                                *)
(*   SpecRegistry            connection registry and secret vault          *)
(*   SpecAccess              access control                                *)
(*   SpecPool                broker pool under contention                  *)
(*   SpecBroker              acquire, execute and authorize by two tenants *)
(*   SpecExec                query executor, cache and query history       *)
(*   SpecVault               seal, unseal and tampered blobs               *)
(*   SpecTest                connection test beside pooled handles         *)
(*   SpecSchema              schema cataloger                              *)
(*   SpecHandles             handle identities under concurrent calls      *)
(*   SpecProgress            the same calls with fair timeouts (liveness)  *)
(*   SpecProbe               acquire with liveness probe and rebuild       *)
(*   SpecEvict               release and eviction on deactivation          *)
(*   SpecHistory             query history and its deletion by tenants     *)
(*   SpecRemove              removal of a connection with query records    *)
(*   SpecClient              front end: token storage, API client, auth    *)
(***************************************************************************)
EXTENDS Integers, Sequences, FiniteSets, TLC

(***************************************************************************)
(* Bounds of the model.                                                    *)
(***************************************************************************)
\* Clock values run over 0..MaxTime.
MaxTime == 3
\* RATE_LIMIT_REQUESTS (100 in the configuration), scaled down.
RateLimitRequests == 2
\* RATE_LIMIT_WINDOW (3600 s in the configuration), scaled down.
RateLimitWindow == 2
\* Concurrent request slots.
MaxReqs == 2
\* CACHE_EXPIRE_MINUTES (30 in the configuration), scaled down.
CacheExpire == 2
\* SESSION_EXPIRE_MINUTES (60 in the configuration), scaled down.
SessionExpire == 2
\* Sessions created in one run.
MaxSessions == 2
\* Request slots of the broker, the per-record pool cap, the release calls one caller
\* makes on one handle, and the query_history rows written.
MaxExec == 3
PoolCap == 2
MaxReleases == 2
MaxHistory == 2
\* login and register calls of the front end in flight at once.
MaxAuthCalls == 2

\* admit calls of one principal in one window that the model follows: one more than
\* the limit.
MaxCallsPerWindow == RateLimitRequests + 1

Principals == {"u1", "u2"}
Reqs == 1..MaxReqs
Times == 0..MaxTime
ConnIds == {"c1", "c2"}
Queries == {"q1"}
\* Result payloads: the rows of a target database before (0) and after (1) a change.
Payloads == {0, 1}
SessionIds == 1..MaxSessions
\* Database passwords, as byte strings.
Passwords == {<<1>>, <<2>>}
\* Nonces the cipher may draw.
Nonces == {0, 1}
\* Host names of target databases.
Hosts == {"db.local", "db2.local"}
ExecReqs == 1..MaxExec
\* The two concurrent callers of the tenant-isolation scenario.
Callers == {1, 2}
AuthCalls == 1..MaxAuthCalls
\* Access tokens the server issues, and the e-mail addresses typed into the forms.
Tokens == {"t1", "t2"}
Emails == {"a@x.io", "b@x.io"}

VARIABLES
  now,           \* the clock
  rate_limits,   \* rate_limits collection: request_count by user_id and window_start
  admitReq,      \* the admit call in each request slot
  admitCalls,    \* history: admit calls begun, by principal and window_start
  cache,         \* cache collection: one document per key
  cacheWritten,  \* history: the last set of each key not invalidated since
  lastGet,       \* the cache read answered by the last step, if it was one
  sessions,      \* sessions collection: one document per hashed session id
  issued,        \* session ids issued so far
  sessionHist,   \* history: what happened to each session id
  lastValidate,  \* the validate call answered by the last step, if it was one
  connections,   \* database_connections table: one row per connection id
  secretOf,      \* history: the password last submitted for each connection
  lastResponse,  \* the connection record last returned to a caller
  lastAuthz,     \* the access-control decision of the last step, if it made one
  pool,          \* per connection record: handles checked out and their count
  execReq,       \* the execute or acquire call in each broker request slot
  query_history, \* query_history table, in insertion order
  schema_json,   \* database_connections.schema_json: the schema snapshot kept per record
  lastOp,        \* the one-shot operation answered by the last step, if it was one
  storage,       \* the browser's localStorage: the items auth_token and user
  authState,     \* AuthProvider: its React state and where the page is in its life
  authCalls,     \* the login or register call in each front-end call slot
  lastRequest    \* the request the API client sent in the last step, if it sent one

rateVars == <<rate_limits, admitReq, admitCalls>>
cacheVars == <<cache, cacheWritten, lastGet>>
sessVars == <<sessions, issued, sessionHist, lastValidate>>
regVars == <<connections, secretOf, lastResponse, lastAuthz>>
regData == <<connections, secretOf, lastResponse>>
brokerVars == <<pool, execReq, query_history>>
vars == <<now, rate_limits, admitReq, admitCalls, cache, cacheWritten, lastGet,
          sessions, issued, sessionHist, lastValidate,
          connections, secretOf, lastResponse, lastAuthz,
          pool, execReq, query_history, schema_json, lastOp,
          storage, authState, authCalls, lastRequest>>
\* What the steps of one component leave alone: the state of the others.
opVars == <<schema_json, lastOp>>
clientVars == <<storage, authState, authCalls, lastRequest>>
notRate == <<cacheVars, sessVars, regVars, brokerVars, opVars, clientVars>>
notCache == <<rateVars, sessVars, regVars, brokerVars, schema_json, clientVars>>
notSession == <<rateVars, cacheVars, regVars, brokerVars, opVars, clientVars>>
notRegistry == <<rateVars, cacheVars, sessVars, brokerVars, schema_json, clientVars>>
notBroker == <<rateVars, sessVars, schema_json, clientVars>>
notClient == <<rateVars, cacheVars, sessVars, regVars, brokerVars, opVars>>
\* What a step of the registry that deactivates a record leaves alone.
notDeactivate == <<rateVars, cacheVars, sessVars, execReq, query_history, schema_json,
                   clientVars>>

(***************************************************************************)
(* Rate limiter                                                            *)
(***************************************************************************)
IdleAdmit == [pc |-> "idle", user |-> "none", win |-> 0, nth |-> 0,
              result |-> "none", remaining |-> 0]

\* window = floor(now / windowSize), kept as the window's start time.
WindowStart(t) == (t \div RateLimitWindow) * RateLimitWindow

\* RateLimitStore.get_request_count(user_id, window_start)
get_request_count(u, w) == rate_limits[u][w]

\* RateLimitStore.increment_request_count(user_id, window_start): the store after the
\* atomic increment of the (user, window) document.
increment_request_count(u, w) == [rate_limits EXCEPT ![u][w] = @ + 1]

\* Mutant: the limit compared off by one.
check_rate_limit_off_by_one(u) ==
  get_request_count(u, WindowStart(now)) <= RateLimitRequests

\* rate_limiter.check_rate_limit(user_id): the current window's count is below the limit.
check_rate_limit(u) == get_request_count(u, WindowStart(now)) < RateLimitRequests

RateInit ==
  /\ rate_limits = [u \in Principals |-> [w \in Times |-> 0]]
  /\ admitReq = [r \in Reqs |-> IdleAdmit]
  /\ admitCalls = [u \in Principals |-> [w \in Times |-> 0]]

NoAdmitInFlight == \A r \in Reqs : admitReq[r].pc = "idle"

\* Rate limiting flow, step 1: check the limit; a request over the limit is answered 429.
AdmitCheck(r, u) ==
  LET w == WindowStart(now) IN
  /\ admitReq[r].pc = "idle"
  /\ admitCalls[u][w] < MaxCallsPerWindow
  /\ admitCalls' = [admitCalls EXCEPT ![u][w] = @ + 1]
  /\ admitReq' = [admitReq EXCEPT ![r] =
        IF check_rate_limit(u)
        THEN [pc |-> "checked", user |-> u, win |-> w, nth |-> admitCalls[u][w] + 1,
              result |-> "none", remaining |-> 0]
        ELSE [pc |-> "done", user |-> u, win |-> w, nth |-> admitCalls[u][w] + 1,
              result |-> "deny", remaining |-> 0]]
  /\ UNCHANGED <<now, rate_limits, notRate>>

\* Rate limiting flow, steps 2-4: increment the count, process, set X-RateLimit-Remaining.
AdmitIncrement(r) ==
  LET u == admitReq[r].user
      w == WindowStart(now)
      after == increment_request_count(u, w) IN
  /\ admitReq[r].pc = "checked"
  /\ rate_limits' = after
  /\ admitReq' = [admitReq EXCEPT ![r].pc = "done", ![r].result = "allow",
                                  ![r].remaining = RateLimitRequests - after[u][w]]
  /\ UNCHANGED <<now, admitCalls, notRate>>

\* The response has been sent; the slot is free again.
AdmitReturn(r) ==
  /\ admitReq[r].pc = "done"
  /\ admitReq' = [admitReq EXCEPT ![r] = IdleAdmit]
  /\ UNCHANGED <<now, rate_limits, admitCalls, notRate>>

\* RateLimitStore.cleanup_old_windows(current_window): documents of closed windows go.
CleanupOldWindows ==
  /\ \E u \in Principals, w \in Times : w < WindowStart(now) /\ rate_limits[u][w] > 0
  /\ rate_limits' = [u \in Principals |-> [w \in Times |->
                       IF w < WindowStart(now) THEN 0 ELSE rate_limits[u][w]]]
  /\ UNCHANGED <<now, admitReq, admitCalls, notRate>>

(***************************************************************************)
(* Cache layer                                                             *)
(***************************************************************************)
\* No value: what a read returns for a missing or expired entry (distinct from every payload).
Absent == -1

\* The cache key of a query result: the hash of user, connection and query.
CacheKey(u, c, q) == <<u, c, q>>
CacheKeys == {CacheKey(u, c, q) : u \in Principals, c \in ConnIds, q \in Queries}

NoEntry == [present |-> FALSE, user_id |-> "none", result |-> 0, expires_at |-> 0,
            created_at |-> 0]
NoWrite == [present |-> FALSE, result |-> 0, set_at |-> 0, ttl |-> 0]
\* No one-shot operation observed.
NoOp == [op |-> "none"]
NoGet == [called |-> FALSE, key |-> <<>>, result |-> Absent, expected |-> Absent]

\* CacheStore.get_cache(key): the stored value, or absent; an entry at or past its
\* expiry is absent although its document may still be stored.
get_cache(key) ==
  IF cache[key].present /\ cache[key].expires_at > now
  THEN cache[key].result ELSE Absent

\* Mutant: the document's expires_at is its creation time, the ttl left out.
set_cache_without_ttl(key, value, expire) ==
  [cache EXCEPT ![key] = [present |-> TRUE, user_id |-> value.user_id,
                          result |-> value.result, expires_at |-> now,
                          created_at |-> now]]

\* CacheStore.set_cache(key, value, expire_minutes): the collection after the write.
set_cache(key, value, expire) ==
  [cache EXCEPT ![key] = [present |-> TRUE, user_id |-> value.user_id,
                          result |-> value.result, expires_at |-> now + expire,
                          created_at |-> now]]

\* CacheStore.delete_cache(key)
delete_cache(key) == [cache EXCEPT ![key] = NoEntry]

\* Mutant: the whole collection is dropped.
clear_user_cache_everyone(u) == [k \in CacheKeys |-> NoEntry]

\* CacheStore.clear_user_cache(user_id): every document whose value names the user.
clear_user_cache(u) ==
  [k \in CacheKeys |-> IF cache[k].present /\ cache[k].user_id = u
                       THEN NoEntry ELSE cache[k]]

\* What a read of key must return by the contract: the value last set and not
\* invalidated since, before its ttl has elapsed.
ExpectedGet(key) ==
  IF cacheWritten[key].present /\ now < cacheWritten[key].set_at + cacheWritten[key].ttl
  THEN cacheWritten[key].result ELSE Absent

CacheInit ==
  /\ cache = [k \in CacheKeys |-> NoEntry]
  /\ cacheWritten = [k \in CacheKeys |-> NoWrite]
  /\ lastGet = NoGet

\* cache_service.cache_query_result(user_id, connection_id, query, result)
SetCache(u, c, q, v) ==
  LET key == CacheKey(u, c, q) IN
  /\ cache' = set_cache(key, [user_id |-> u, result |-> v], CacheExpire)
  /\ cacheWritten' = [cacheWritten EXCEPT ![key] =
        [present |-> TRUE, result |-> v, set_at |-> now, ttl |-> CacheExpire]]
  /\ lastGet' = NoGet
  /\ lastOp' = NoOp
  /\ UNCHANGED <<now, notCache>>

\* cache_service.get_cached_query_result(user_id, connection_id, query)
GetCache(u, c, q) ==
  LET key == CacheKey(u, c, q) IN
  /\ lastGet' = [called |-> TRUE, key |-> key, result |-> get_cache(key),
                 expected |-> ExpectedGet(key)]
  /\ lastOp' = NoOp
  /\ UNCHANGED <<now, cache, cacheWritten, notCache>>

\* invalidate(key)
DeleteCache(key) ==
  /\ cache[key].present
  /\ cache' = delete_cache(key)
  /\ cacheWritten' = [cacheWritten EXCEPT ![key] = NoWrite]
  /\ lastGet' = NoGet
  /\ lastOp' = NoOp
  /\ UNCHANGED <<now, notCache>>

\* cache_service.invalidate_user_cache(user_id)
ClearUserCache(u) ==
  /\ \E k \in CacheKeys : cache[k].present /\ cache[k].user_id = u
  /\ cache' = clear_user_cache(u)
  /\ cacheWritten' = [k \in CacheKeys |-> IF k[1] = u THEN NoWrite ELSE cacheWritten[k]]
  /\ lastGet' = NoGet
  /\ lastOp' = [op |-> "clear", user |-> u]
  /\ UNCHANGED <<now, notCache>>

\* CacheStore.cleanup_expired_cache(): the sweep removes every expired document.
CleanupExpiredCache ==
  /\ \E k \in CacheKeys : cache[k].present /\ cache[k].expires_at <= now
  /\ cache' = [k \in CacheKeys |-> IF cache[k].present /\ cache[k].expires_at <= now
                                    THEN NoEntry ELSE cache[k]]
  /\ lastGet' = NoGet
  /\ lastOp' = NoOp
  /\ UNCHANGED <<now, cacheWritten, notCache>>

\* The store's TTL index reclaims one expired document at some time after its expiry.
TtlReclaim(key) ==
  /\ cache[key].present /\ cache[key].expires_at <= now
  /\ cache' = [cache EXCEPT ![key] = NoEntry]
  /\ lastGet' = NoGet
  /\ lastOp' = NoOp
  /\ UNCHANGED <<now, cacheWritten, notCache>>

(***************************************************************************)
(* Session ledger                                                          *)
(***************************************************************************)
Invalid == "invalid"

\* The stored session_id is a one-way hash of the issued identifier.
HashSession(sid) == <<"sha256", sid>>
HashedIds == {HashSession(sid) : sid \in SessionIds}

NoSession == [present |-> FALSE, user_id |-> "none", expires_at |-> 0]
NoHist == [created |-> FALSE, revoked |-> FALSE, user_id |-> "none", expires_at |-> 0]
NoValidate == [called |-> FALSE, sid |-> 0, result |-> Invalid]

\* SessionStore.get_session(session_id)
get_session(sid) == sessions[HashSession(sid)]

\* SessionStore.create_session(session_id, user_id, session_data)
create_session(sid, u) ==
  [sessions EXCEPT ![HashSession(sid)] =
     [present |-> TRUE, user_id |-> u, expires_at |-> now + SessionExpire]]

\* Mutant: the delete leaves the document in place.
delete_session_kept(sid) == sessions

\* SessionStore.delete_session(session_id)
delete_session(sid) == [sessions EXCEPT ![HashSession(sid)] = NoSession]

\* SessionStore.validate_session(session_id): the session's principal, or invalid for an
\* unknown id and for a session at or past its expiry.
validate_session(sid) ==
  LET doc == get_session(sid) IN
  IF doc.present /\ doc.expires_at > now THEN doc.user_id ELSE Invalid

\* SessionStore.refresh_session(session_id): a valid session's expiry moves on.
refresh_session(sid) ==
  IF validate_session(sid) # Invalid
  THEN [sessions EXCEPT ![HashSession(sid)].expires_at = now + SessionExpire]
  ELSE sessions

SessionInit ==
  /\ sessions = [h \in HashedIds |-> NoSession]
  /\ issued = 0
  /\ sessionHist = [sid \in SessionIds |-> NoHist]
  /\ lastValidate = NoValidate

\* User login flow, step 2: session_service.create_user_session(user.id)
CreateSession(u) ==
  LET sid == issued + 1 IN
  /\ issued < MaxSessions
  /\ issued' = sid
  /\ sessions' = create_session(sid, u)
  /\ sessionHist' = [sessionHist EXCEPT ![sid] =
        [created |-> TRUE, revoked |-> FALSE, user_id |-> u,
         expires_at |-> now + SessionExpire]]
  /\ lastValidate' = NoValidate
  /\ UNCHANGED <<now, notSession>>

\* validate(sessionId), for an id issued or not.
ValidateSession(sid) ==
  /\ lastValidate' = [called |-> TRUE, sid |-> sid, result |-> validate_session(sid)]
  /\ UNCHANGED <<now, notSession, sessions, issued, sessionHist>>

\* touch(sessionId)
RefreshSession(sid) ==
  /\ sessionHist[sid].created
  /\ sessions' = refresh_session(sid)
  /\ sessionHist' = [sessionHist EXCEPT ![sid].expires_at =
        IF ~sessionHist[sid].revoked /\ now < @ THEN now + SessionExpire ELSE @]
  /\ lastValidate' = NoValidate
  /\ UNCHANGED <<now, notSession, issued>>

\* revoke(sessionId): logout.
DeleteSession(sid) ==
  /\ sessionHist[sid].created
  /\ sessions' = delete_session(sid)
  /\ sessionHist' = [sessionHist EXCEPT ![sid].revoked = TRUE]
  /\ lastValidate' = NoValidate
  /\ UNCHANGED <<now, notSession, issued>>

\* SessionStore.cleanup_expired_sessions(): sweepExpired.
CleanupExpiredSessions ==
  /\ \E h \in HashedIds : sessions[h].present /\ sessions[h].expires_at <= now
  /\ sessions' = [h \in HashedIds |->
        IF sessions[h].present /\ sessions[h].expires_at <= now
        THEN NoSession ELSE sessions[h]]
  /\ lastValidate' = NoValidate
  /\ UNCHANGED <<now, notSession, issued, sessionHist>>

\* The TTL index on expires_at reclaims one expired session document.
SessionTtlReclaim(sid) ==
  /\ get_session(sid).present /\ get_session(sid).expires_at <= now
  /\ sessions' = [sessions EXCEPT ![HashSession(sid)] = NoSession]
  /\ lastValidate' = NoValidate
  /\ UNCHANGED <<now, notSession, issued, sessionHist>>

(***************************************************************************)
(* Secret vault                                                            *)
(***************************************************************************)
\* Byte values run over 0..ByteRange-1.
ByteRange == 4
\* settings.ENCRYPTION_KEY
EncryptionKey == 3
CryptoError == <<>>

\* The cipher's keystream byte and its authentication tag for a nonce and a ciphertext.
Keystream(nonce) == (EncryptionKey + nonce) % ByteRange
\* The tag is taken as collision-free over (nonce, ciphertext).
GcmTag(nonce, ct) == EncryptionKey + nonce * ByteRange + ct

\* base64.b64encode / b64decode: bytes to text characters and back.
b64encode(bytes) == [i \in 1..Len(bytes) |-> bytes[i] + 64]
b64decode(text) == [i \in 1..Len(text) |-> text[i] - 64]

\* Mutant: the password is stored as submitted.
encrypt_database_password_plain(password, nonce) == password

\* EncryptionService.encrypt_database_password: base64(nonce + tag + ciphertext).
encrypt_database_password(password, nonce) ==
  LET ct == (password[1] + Keystream(nonce)) % ByteRange IN
  b64encode(<<nonce, GcmTag(nonce, ct), ct>>)

\* Mutant: the ciphertext is decrypted without verifying the tag.
decrypt_database_password_unverified(encrypted) ==
  LET data == b64decode(encrypted) IN
  IF Len(data) = 3
  THEN <<(data[3] - Keystream(data[1]) + ByteRange) % ByteRange>>
  ELSE CryptoError

\* EncryptionService.decrypt_database_password: decrypt_and_verify, CryptoError when
\* the tag does not verify.
decrypt_database_password(encrypted) ==
  LET data == b64decode(encrypted) IN
  IF Len(data) = 3 /\ data[2] = GcmTag(data[1], data[3])
  THEN <<(data[3] - Keystream(data[1]) + ByteRange) % ByteRange>>
  ELSE CryptoError

(***************************************************************************)
(* Connection registry and access control                                  *)
(***************************************************************************)
NoRecord == [exists |-> FALSE, user_id |-> "none", password_encrypted |-> <<>>,
             is_active |-> FALSE, host |-> "none"]
NoResponse == [id |-> "none", is_active |-> FALSE, host |-> "none"]
NoAuthz == [called |-> FALSE, user |-> "none", conn |-> "none", decision |-> "none",
            missing |-> FALSE, revoked |-> FALSE]

\* The DatabaseConnection a caller receives: the row without its secret.
ToResponse(c, row) == [id |-> c, is_active |-> row.is_active, host |-> row.host]

\* get_connection(connection_id): the row, or None.
get_connection(c) == connections[c]

\* Mutant: every user has access.
user_has_access_any(u, c) ==
  IF ~get_connection(c).exists THEN "AttributeError" ELSE "allow"

\* AccessControlService.user_has_access: connection.user_id == user_id; reading
\* user_id of None raises AttributeError.
user_has_access(u, c) ==
  IF ~get_connection(c).exists THEN "AttributeError"
  ELSE IF get_connection(c).user_id = u THEN "allow" ELSE "deny"

\* The principal had a session, it was revoked, and no session of the principal is valid.
SessionRevoked(u) ==
  /\ \E sid \in SessionIds : sessionHist[sid].user_id = u /\ sessionHist[sid].revoked
  /\ \A sid \in SessionIds : validate_session(sid) # u

RegistryInit ==
  /\ schema_json = [c \in ConnIds |-> Absent]
  /\ lastOp = NoOp
  /\ connections = [c \in ConnIds |-> NoRecord]
  /\ secretOf = [c \in ConnIds |-> <<>>]
  /\ lastResponse = NoResponse
  /\ lastAuthz = NoAuthz

\* POST /connections: create, the password sealed before the row is written.
CreateConnection(u, c, password, nonce) ==
  LET row == [exists |-> TRUE, user_id |-> u,
              password_encrypted |-> encrypt_database_password(password, nonce),
              is_active |-> TRUE, host |-> "db.local"] IN
  /\ ~connections[c].exists
  /\ connections' = [connections EXCEPT ![c] = row]
  /\ secretOf' = [secretOf EXCEPT ![c] = password]
  /\ lastResponse' = ToResponse(c, row)
  /\ lastOp' = NoOp
  /\ UNCHANGED <<now, notRegistry, lastAuthz>>

\* The pool of a record that is deactivated: its idle handles are closed and evicted.
evict_idle(c) == [pool EXCEPT ![c].idle = {}, ![c].dead = {}]

\* PUT /connections/{id}: update by the owner; a blank password keeps the stored one.
UpdateConnection(u, c, password, nonce, active) ==
  LET row == [connections[c] EXCEPT
                !.password_encrypted =
                    IF password = <<>> THEN @
                    ELSE encrypt_database_password(password, nonce),
                !.is_active = active] IN
  /\ connections[c].exists /\ user_has_access(u, c) = "allow"
  /\ connections' = [connections EXCEPT ![c] = row]
  /\ secretOf' = [secretOf EXCEPT ![c] = IF password = <<>> THEN @ ELSE password]
  /\ lastResponse' = ToResponse(c, row)
  /\ lastOp' = NoOp
  /\ pool' = IF active THEN pool ELSE evict_idle(c)
  /\ UNCHANGED <<now, notDeactivate, lastAuthz>>

\* handleEditConnection(connection): the edit form starts from the record shown, its
\* password field blank.
handleEditConnection(connection) == [host |-> connection.host, password |-> <<>>]

\* Mutant: a blank password is sealed and stored like any other.
stored_secret_overwritten(row, password, nonce) ==
  IF password = <<>> THEN b64encode(<<nonce, GcmTag(nonce, 0)>>)
  ELSE encrypt_database_password(password, nonce)

\* The secret column after an update: a blank password keeps the current one.
stored_secret(row, password, nonce) ==
  IF password = <<>> THEN row.password_encrypted
  ELSE encrypt_database_password(password, nonce)

\* The edit dialog: the owner opens it on a record, edits the host, types a password
\* or leaves the field blank, and submits; handleUpdateConnection sends the whole form
\* as the ConnectionUpdate.
EditConnection(u, c, host, typed, nonce) ==
  LET formData == [handleEditConnection(ToResponse(c, connections[c])) EXCEPT
                     !.host = host, !.password = typed]
      row == [connections[c] EXCEPT
                !.host = formData.host,
                !.password_encrypted = stored_secret(connections[c], formData.password, nonce)] IN
  /\ connections[c].exists /\ user_has_access(u, c) = "allow"
  /\ connections' = [connections EXCEPT ![c] = row]
  /\ secretOf' = [secretOf EXCEPT ![c] = IF formData.password = <<>> THEN @
                                          ELSE formData.password]
  /\ lastResponse' = ToResponse(c, row)
  /\ lastOp' = [op |-> "edit", conn |-> c, blank |-> (formData.password = <<>>),
                before |-> connections[c].password_encrypted, host |-> formData.host]
  /\ UNCHANGED <<now, notRegistry, lastAuthz>>

\* Mutant: the row is deleted.
remove_connection_hard(c) == [connections EXCEPT ![c] = NoRecord]

\* The table after a connection was removed: the row stays, its active flag false.
remove_connection(c) == [connections EXCEPT ![c].is_active = FALSE]

\* DELETE /connections/{id}: deactivate by the owner; the row stays, disabled.
DeactivateConnection(u, c) ==
  /\ connections[c].exists /\ user_has_access(u, c) = "allow"
  /\ connections[c].is_active
  /\ connections' = remove_connection(c)
  /\ lastResponse' = NoResponse
  /\ lastOp' = [op |-> "remove", user |-> u, conn |-> c]
  /\ pool' = evict_idle(c)
  /\ UNCHANGED <<now, notDeactivate, secretOf, lastAuthz>>

\* authorize(principal, connectionId)
Authorize(u, c) ==
  /\ lastAuthz' = [called |-> TRUE, user |-> u, conn |-> c,
                   decision |-> user_has_access(u, c),
                   missing |-> ~connections[c].exists, revoked |-> SessionRevoked(u)]
  /\ lastOp' = NoOp
  /\ UNCHANGED <<now, notRegistry, connections, secretOf, lastResponse>>

(***************************************************************************)
(* Connection broker: pool, query executor, query history                  *)
(***************************************************************************)
\* A statement that returns no rows: an empty list.
EmptyRows == 0
IdleExec == [pc |-> "idle", kind |-> "none", user |-> "none", conn |-> "none",
             query |-> "none", status |-> "none", payload |-> Absent, hit |-> FALSE,
             contacted |-> FALSE, logged |-> 0, expectHit |-> FALSE,
             expectPayload |-> Absent, releases |-> 0, authz |-> "none",
             probeFailed |-> FALSE, rebuilt |-> "none", rebuilds |-> 0, submits |-> 0]
\* A pool with no handle built yet; held[r] is the handle the caller in slot r has
\* checked out, 0 for none; idle are the open handles resting in the pool, dead those
\* whose database session has died; up says whether the target database answers.
NoPool == [out |-> {}, outstanding |-> 0, held |-> [r \in ExecReqs |-> 0],
           idle |-> {}, dead |-> {}, up |-> TRUE]

\* Python truth value of a cached result: None and the empty list are false.
Truthy(v) == v # Absent /\ v # EmptyRows

\* Mutant: the pool hands out handles without looking at the cap.
pool_has_capacity_unbounded(c) == TRUE

\* The pool of the record has a handle to give.
pool_has_capacity(c) == pool[c].outstanding < PoolCap

\* The handles of the pool of the record that are checked out.
HeldHandles(c) == {pool[c].held[r] : r \in pool[c].out}

\* Mutant: the pool always hands out its first handle.
free_handle_first(c) == 1

\* The handle the pool hands out next: the first idle one to reuse, else the first
\* one that is not checked out, to build.
free_handle(c) ==
  IF pool[c].idle \ HeldHandles(c) # {}
  THEN CHOOSE h \in pool[c].idle \ HeldHandles(c) :
          \A h2 \in pool[c].idle \ HeldHandles(c) : h <= h2
  ELSE CHOOSE h \in 1..(pool[c].outstanding + 1) :
          /\ h \notin HeldHandles(c)
          /\ \A h2 \in 1..(pool[c].outstanding + 1) : h2 \notin HeldHandles(c) => h <= h2

\* Check a handle out of the pool of the record for the caller in slot r.
checkout(c, r) ==
  [pool EXCEPT ![c] = [@ EXCEPT !.out = @ \cup {r}, !.outstanding = @ + 1,
                                !.held = [@ EXCEPT ![r] = free_handle(c)],
                                !.idle = @ \ {free_handle(c)}]]

\* Mutant: release counts down whether or not the handle is checked out.
release_unchecked(c, r) ==
  [pool EXCEPT ![c] = [@ EXCEPT !.out = @ \ {r}, !.outstanding = @ - 1,
                                !.held = [@ EXCEPT ![r] = 0],
                                !.idle = @ \cup ({pool[c].held[r]} \ {0})]]

\* Mutant: a released handle goes back to the pool whatever the state of the record.
returned_to_pool_always(c, h) == {h}

\* What release gives back to the pool: the handle, open, while the record is active;
\* nothing once the record is deactivated, the handle is closed and evicted.
returned_to_pool(c, h) == IF connections[c].is_active THEN {h} ELSE {}

\* release(handle): return the handle to its pool; a handle that is not checked out
\* is left alone.
release(c, r) ==
  IF r \in pool[c].out
  THEN [pool EXCEPT ![c] = [@ EXCEPT !.out = @ \ {r}, !.outstanding = @ - 1,
                                     !.held = [@ EXCEPT ![r] = 0],
                                     !.idle = @ \cup returned_to_pool(c, pool[c].held[r])]]
  ELSE pool

\* log_query(user_id, connection_id, query, result)
log_query(u, c, q) ==
  Append(query_history, [user_id |-> u, database_connection_id |-> c,
                         generated_sql_query |-> q, status |-> "success"])

\* Slots are taken in order, once every completed call has returned to its caller.
SlotFree(r) ==
  /\ execReq[r].pc = "idle"
  /\ \A r2 \in ExecReqs : r2 < r => execReq[r2].pc # "idle"
  /\ \A r2 \in ExecReqs : execReq[r2].pc # "done"
\* The execute calls in flight, which may each still write to query_history.
InFlight == {r \in ExecReqs : execReq[r].kind = "execute" /\ execReq[r].pc \in {"waiting", "acquired"}}

BrokerInit ==
  /\ pool = [c \in ConnIds |-> NoPool]
  /\ execReq = [r \in ExecReqs |-> IdleExec]
  /\ query_history = <<>>

\* Mutant: a reused handle is returned without a probe.
probe_skipped(c, h) == TRUE

\* The liveness probe of a handle of the pool.
probe(c, h) == h \notin pool[c].dead

\* The pool without the handle: closed and forgotten.
discard(c, h) == [pool EXCEPT ![c].idle = @ \ {h}, ![c].dead = @ \ {h}]

\* Steps (c) and (d) of acquire for the caller in slot r: reuse an idle handle or build
\* one; a reused handle is probed, and when the probe fails it is discarded and
\* rebuilt once. Building needs the target database to answer.
take_handle(r, c, slot) ==
  LET h == free_handle(c)
      reused == h \in pool[c].idle IN
  IF reused /\ ~probe(c, h)
  THEN IF pool[c].up
       THEN /\ execReq' = [execReq EXCEPT ![r] =
                  [slot EXCEPT !.pc = "acquired", !.probeFailed = TRUE,
                               !.rebuilt = "live", !.rebuilds = @ + 1]]
            /\ pool' = [checkout(c, r) EXCEPT ![c].dead = @ \ {h}]
       ELSE /\ execReq' = [execReq EXCEPT ![r] =
                  [slot EXCEPT !.pc = "done", !.status = "ConnectionUnavailable",
                               !.probeFailed = TRUE, !.rebuilt = "dead",
                               !.rebuilds = @ + 1]]
            /\ pool' = discard(c, h)
  ELSE IF ~reused /\ ~pool[c].up
  THEN /\ execReq' = [execReq EXCEPT ![r] =
             [slot EXCEPT !.pc = "done", !.status = "ConnectionUnavailable"]]
       /\ pool' = pool
  ELSE /\ execReq' = [execReq EXCEPT ![r] = [slot EXCEPT !.pc = "acquired"]]
       /\ pool' = checkout(c, r)

\* get_client_connection(user_id, connection_id) as the slot and the pool see it:
\* the access check, whose decision the slot records as made by this call, then a
\* handle from the pool or a wait for one.
get_client_connection(r, u, c, slot) ==
  LET access == user_has_access(u, c) IN
  IF access = "AttributeError"
  THEN /\ execReq' = [execReq EXCEPT ![r] = [slot EXCEPT !.pc = "done", !.status = "AttributeError",
                                                      !.authz = access]]
       /\ pool' = pool
  ELSE IF access = "deny"
  THEN /\ execReq' = [execReq EXCEPT ![r] = [slot EXCEPT !.pc = "done", !.status = "AccessDenied",
                                                      !.authz = access]]
       /\ pool' = pool
  ELSE IF pool_has_capacity(c)
  THEN take_handle(r, c, [slot EXCEPT !.authz = access])
  ELSE /\ execReq' = [execReq EXCEPT ![r] = [slot EXCEPT !.pc = "waiting", !.authz = access]]
       /\ pool' = pool

\* acquire(connectionId, principal)
AcquireBegin(r, u, c) ==
  /\ SlotFree(r)
  /\ get_client_connection(r, u, c,
        [IdleExec EXCEPT !.kind = "acquire", !.user = u, !.conn = c])
  /\ lastAuthz' = NoAuthz /\ lastOp' = NoOp
  /\ UNCHANGED <<now, notBroker, cacheVars, regData, query_history>>

\* A waiting caller gets the handle another caller released.
AcquireGrant(r) ==
  /\ execReq[r].pc = "waiting"
  /\ pool_has_capacity(execReq[r].conn)
  /\ take_handle(r, execReq[r].conn, execReq[r])
  /\ lastAuthz' = NoAuthz /\ lastOp' = NoOp
  /\ UNCHANGED <<now, notBroker, cacheVars, regData, query_history>>

\* Mutant: the wait for a handle has no timeout.
acquire_wait_unbounded(c) == FALSE

\* The bounded wait for a handle of the record has run out: the cap is still reached.
acquire_wait_expired(c) == ~pool_has_capacity(c)

\* The wait for a handle times out while the cap is still reached.
AcquireTimeout(r) ==
  /\ execReq[r].pc = "waiting"
  /\ acquire_wait_expired(execReq[r].conn)
  /\ execReq' = [execReq EXCEPT ![r].pc = "done", ![r].status = "ConnectionPoolExhausted"]
  /\ lastAuthz' = NoAuthz /\ lastOp' = NoOp
  /\ UNCHANGED <<now, notBroker, cacheVars, regData, pool, query_history>>

\* release(handle), by the caller that acquired it, once or again.
Release(r) ==
  /\ execReq[r].kind = "acquire"
  /\ execReq[r].pc \in {"acquired", "released"}
  /\ execReq[r].releases < MaxReleases
  /\ pool' = release(execReq[r].conn, r)
  /\ execReq' = [execReq EXCEPT ![r].pc = "released", ![r].releases = @ + 1]
  /\ lastAuthz' = NoAuthz /\ lastOp' = NoOp
  /\ UNCHANGED <<now, notBroker, cacheVars, regData, query_history>>

\* The call returns to its caller and the slot is free again.
Return(r) ==
  /\ execReq[r].pc \in {"done", "released"}
  /\ execReq' = [execReq EXCEPT ![r] = IdleExec]
  /\ lastAuthz' = NoAuthz /\ lastOp' = NoOp
  /\ UNCHANGED <<now, notBroker, cacheVars, regData, pool, query_history>>

\* Query Execution Flow, first half: the cached result if there is one, else the
\* connection of the user.
ExecBegin(r, u, c, q) ==
  LET key == CacheKey(u, c, q)
      cached_result == get_cache(key)
      slot == [IdleExec EXCEPT !.kind = "execute", !.user = u, !.conn = c, !.query = q,
                               !.expectHit = (ExpectedGet(key) # Absent),
                               !.expectPayload = ExpectedGet(key)] IN
  /\ SlotFree(r)
  /\ Len(query_history) + Cardinality(InFlight) < MaxHistory
  /\ IF Truthy(cached_result)
     THEN /\ execReq' = [execReq EXCEPT ![r] =
                [slot EXCEPT !.pc = "done", !.status = "success",
                             !.payload = cached_result, !.hit = TRUE]]
          /\ pool' = pool
     ELSE get_client_connection(r, u, c, slot)
  /\ lastAuthz' = NoAuthz /\ lastOp' = NoOp
  /\ UNCHANGED <<now, notBroker, cacheVars, regData, query_history>>

\* Mutant: a statement that timed out is submitted a second time.
submissions_with_retry(outcome) == IF outcome = "QueryTimeout" THEN 2 ELSE 1

\* The times execute_query submits the statement to the client database: the one
\* connection.execute(query), whatever comes of it.
submissions(outcome) == 1

\* Query Execution Flow, second half: run the statement on the client database, which
\* answers with the rows it holds now; log the query, cache the result. A statement
\* that fails raises before either.
ExecRun(r, outcome, result) ==
  LET u == execReq[r].user
      c == execReq[r].conn
      q == execReq[r].query
      key == CacheKey(u, c, q) IN
  /\ execReq[r].kind = "execute" /\ execReq[r].pc = "acquired"
  /\ pool' = release(c, r)
  /\ IF outcome = "success"
     THEN /\ query_history' = log_query(u, c, q)
          /\ cache' = set_cache(key, [user_id |-> u, result |-> result], CacheExpire)
          /\ cacheWritten' = [cacheWritten EXCEPT ![key] =
                [present |-> TRUE, result |-> result, set_at |-> now, ttl |-> CacheExpire]]
          /\ execReq' = [execReq EXCEPT ![r].pc = "done", ![r].status = "success",
                                        ![r].payload = result, ![r].contacted = TRUE,
                                        ![r].logged = 1,
                                        ![r].submits = @ + submissions(outcome)]
     ELSE /\ execReq' = [execReq EXCEPT ![r].pc = "done", ![r].status = outcome,
                                        ![r].contacted = TRUE,
                                        ![r].submits = @ + submissions(outcome)]
          /\ UNCHANGED <<query_history, cache, cacheWritten>>
  /\ lastAuthz' = NoAuthz /\ lastOp' = NoOp
  /\ UNCHANGED <<now, notBroker, regData, lastGet>>

\* The sequence without its element at position i.
RemoveAt(seq, i) == [j \in 1..(Len(seq) - 1) |-> IF j < i THEN seq[j] ELSE seq[j + 1]]

\* ApiClient.deleteQueryHistory(): DELETE /queries/logs removes every query record
\* of the caller and answers with their number.
DeleteQueryHistory(u) ==
  LET kept == SelectSeq(query_history, LAMBDA e : e.user_id # u) IN
  /\ query_history' = kept
  /\ lastOp' = [op |-> "deleteHistory", user |-> u,
                deleted_count |-> Len(query_history) - Len(kept)]
  /\ lastAuthz' = NoAuthz
  /\ UNCHANGED <<now, notBroker, cacheVars, regData, pool, execReq>>

\* ApiClient.deleteSingleQueryLog(logId): DELETE /queries/logs/{logId} removes one
\* query record of the caller.
DeleteSingleQueryLog(u, logId) ==
  /\ logId \in 1..Len(query_history)
  /\ query_history[logId].user_id = u
  /\ query_history' = RemoveAt(query_history, logId)
  /\ lastOp' = [op |-> "deleteLog", user |-> u, deleted_count |-> 1]
  /\ lastAuthz' = NoAuthz
  /\ UNCHANGED <<now, notBroker, cacheVars, regData, pool, execReq>>

\* The target database of the record stops answering: the sessions of the idle
\* handles die with it.
DatabaseDown(c) ==
  /\ pool[c].up
  /\ pool' = [pool EXCEPT ![c].up = FALSE, ![c].dead = pool[c].idle]
  /\ lastAuthz' = NoAuthz /\ lastOp' = NoOp
  /\ UNCHANGED <<now, notBroker, cacheVars, regData, execReq, query_history>>

\* The target database answers again; the sessions that died stay dead.
DatabaseUp(c) ==
  /\ ~pool[c].up
  /\ pool' = [pool EXCEPT ![c].up = TRUE]
  /\ lastAuthz' = NoAuthz /\ lastOp' = NoOp
  /\ UNCHANGED <<now, notBroker, cacheVars, regData, execReq, query_history>>

\* Mutant: the probe's connection stays checked out of the pool.
test_pool_retained(c) == [pool EXCEPT ![c].outstanding = @ + 1]

\* The pool after test(connectionId): the probe connects on its own and closes, the
\* pool of the record is not involved.
test_pool(c) == pool

\* The ConnectionTestResponse of a probe.
ConnectionTestResponse(reachable) ==
  [success |-> reachable,
   message |-> IF reachable THEN "Connection successful" ELSE "Connection failed",
   error |-> IF reachable THEN "" ELSE "could not connect to server"]

\* POST /connections/{id}/test by the owner: connect and probe once.
TestConnection(u, c, reachable) ==
  /\ get_connection(c).exists /\ user_has_access(u, c) = "allow"
  /\ pool' = test_pool(c)
  /\ lastOp' = [op |-> "test", user |-> u, conn |-> c, reachable |-> reachable,
                response |-> ConnectionTestResponse(reachable), poolBefore |-> pool]
  /\ lastAuthz' = NoAuthz
  /\ UNCHANGED <<now, notBroker, cacheVars, regData, execReq, query_history>>

(***************************************************************************)
(* Secret vault calls                                                      *)
(***************************************************************************)
\* Every one-byte plaintext, every nonce, and the characters a stored blob is made of.
Plaintexts == {<<b>> : b \in 0..(ByteRange - 1)}
AllNonces == 0..(ByteRange - 1)
TextChars == {64 + b : b \in 0..(ByteRange * ByteRange - 1)}

\* The blob with the character at position i replaced.
Corrupt(blob, i, ch) == [blob EXCEPT ![i] = ch]

\* seal(x) and unseal of the result.
Seal(x, nonce) ==
  LET blob == encrypt_database_password(x, nonce) IN
  /\ lastOp' = [op |-> "seal", plain |-> x, blob |-> blob, position |-> 0,
                unsealed |-> decrypt_database_password(blob)]
  /\ UNCHANGED <<now, rateVars, cacheVars, sessVars, regVars, brokerVars, schema_json,
                 clientVars>>

\* unseal of a sealed blob in which one character was changed.
UnsealCorrupted(i, ch) ==
  /\ lastOp.op = "seal"
  /\ lastOp.blob[i] # ch
  /\ LET blob == Corrupt(lastOp.blob, i, ch) IN
       lastOp' = [op |-> "tamper", plain |-> lastOp.plain, blob |-> blob,
                  position |-> i, unsealed |-> decrypt_database_password(blob)]
  /\ UNCHANGED <<now, rateVars, cacheVars, sessVars, regVars, brokerVars, schema_json,
                 clientVars>>

(***************************************************************************)
(* Schema cataloger                                                        *)
(***************************************************************************)
\* Schema snapshots a target database may present.
Schemas == {1, 2}

\* cache_schema(connection_id, schema): the snapshot kept on the record.
cache_schema(c, schema) == [schema_json EXCEPT ![c] = schema]

\* SchemaDetectionService.detect_client_schema(connection_id): analyse the database,
\* cache the schema, return it. A failing analysis raises out of the call before
\* anything is cached or returned.
DetectSchema(c, introspection, schema) ==
  /\ get_connection(c).exists
  /\ IF introspection = "ok"
     THEN /\ schema_json' = cache_schema(c, schema)
          /\ lastOp' = [op |-> "discover", conn |-> c, failed |-> FALSE,
                        status |-> "success", result |-> schema,
                        prior |-> schema_json[c]]
     ELSE /\ schema_json' = schema_json
          /\ lastOp' = [op |-> "discover", conn |-> c, failed |-> TRUE,
                        status |-> "IntrospectionError", result |-> Absent,
                        prior |-> schema_json[c]]
  /\ UNCHANGED <<now, rateVars, cacheVars, sessVars, regVars, brokerVars, clientVars>>

(***************************************************************************)
(* Front end: token storage, API client, AuthProvider                      *)
(***************************************************************************)
\* null, as localStorage.getItem answers for a missing item, and the empty string.
Null == "null"
Empty == ""
NoUser == [id |-> Empty, email |-> Empty]
NoRequest == [sent |-> FALSE]
\* A call slot; rejected and access_token are what the login request came back with.
IdleCall == [pc |-> "idle", kind |-> "none", email |-> Empty, success |-> FALSE,
             rejected |-> FALSE, access_token |-> Empty]

\* JavaScript truth value of a string or null.
TruthyString(v) == v # Null /\ v # Empty

\* JSON.stringify(user) and JSON.parse of it: the text lists the fields, the parse
\* reads them back.
JSON_stringify(user) == <<"id", user.id, "email", user.email>>
JSON_parse(text) == [id |-> text[2], email |-> text[4]]

\* auth.ts: getToken, setToken, removeToken, getUser, setUser, removeUser.
getToken == storage.auth_token
setToken(st, token) == [st EXCEPT !.auth_token = token]
getUser == IF storage.user # <<>> THEN JSON_parse(storage.user) ELSE NoUser
setUser(st, user) == [st EXCEPT !.user = JSON_stringify(user)]
removeUser(st) == [st EXCEPT !.user = <<>>]

\* Mutant: the token is left in the storage.
removeToken_kept(st) == st

removeToken(st) == [st EXCEPT !.auth_token = Null]

\* The options of a call of request: none of its own headers, as every method but
\* login passes, and the form content type that login passes.
NoHeaders == [hasHeaders |-> FALSE, headers |-> <<>>]
LoginHeaders ==
  [hasHeaders |-> TRUE,
   headers |-> ("Content-Type" :> <<"application/x-www-form-urlencoded">>)]

\* ApiClient.request: the headers of the config handed to fetch. The default content
\* type, the Authorization header when getToken() is truthy, the caller's headers
\* assigned over them; then config = { headers, ...options }, in which a headers
\* member of options takes the place of the merged ones.
request(token, options) ==
  LET base == "Content-Type" :> <<"application/json">>
      headers == IF TruthyString(token)
                 THEN ("Authorization" :> <<"Bearer", token>>) @@ base
                 ELSE base
      merged == IF options.hasHeaders THEN options.headers @@ headers ELSE headers
      config == IF options.hasHeaders THEN options.headers ELSE merged IN
  [sent |-> TRUE, token |-> token, headers |-> config]

ClientInit ==
  /\ storage = [auth_token |-> Null, user |-> <<>>]
  /\ authState = [phase |-> "unloaded", user |-> NoUser, isLoading |-> TRUE,
                  loggedOut |-> FALSE]
  /\ authCalls = [k \in AuthCalls |-> IdleCall]
  /\ lastRequest = NoRequest

\* A call slot is taken when it is idle and the ones before it are not.
CallFree(k) ==
  /\ authCalls[k].pc = "idle"
  /\ \A k2 \in AuthCalls : k2 < k => authCalls[k2].pc # "idle"

\* The page is loaded in a browser whose localStorage holds what earlier visits and
\* the user left there.
PageLoad(token, saved) ==
  /\ authState.phase = "unloaded"
  /\ storage' = [auth_token |-> token, user |-> saved]
  /\ authState' = [authState EXCEPT !.phase = "rendered"]
  /\ UNCHANGED <<now, notClient, authCalls, lastRequest>>

\* Mutant: the saved user is restored whether or not a token is stored.
restore_user_without_token(token, savedUser) == savedUser

\* AuthProvider useEffect: the user restored on mount.
restore_user(token, savedUser) ==
  IF TruthyString(token) /\ savedUser # NoUser THEN savedUser ELSE NoUser

\* AuthProvider useEffect, on mount.
Mount ==
  /\ authState.phase = "rendered"
  /\ authState' = [authState EXCEPT !.phase = "mounted", !.isLoading = FALSE,
                                     !.user = restore_user(getToken, getUser)]
  /\ lastRequest' = NoRequest
  /\ UNCHANGED <<now, notClient, storage, authCalls>>

\* Any method of the API client but login: request without headers of its own.
ApiRequest ==
  /\ authState.phase = "mounted"
  /\ lastRequest' = request(getToken, NoHeaders)
  /\ UNCHANGED <<now, notClient, storage, authState, authCalls>>

\* AuthProvider.login up to its await: ApiClient.login sends POST /auth/login.
LoginSend(k, email) ==
  /\ authState.phase = "mounted" /\ CallFree(k)
  /\ authCalls' = [authCalls EXCEPT ![k] =
        [IdleCall EXCEPT !.pc = "awaitLogin", !.kind = "login", !.email = email]]
  /\ lastRequest' = request(getToken, LoginHeaders)
  /\ UNCHANGED <<now, notClient, storage, authState>>

\* Mutant: a failed login clears the stored credentials.
on_login_failure_clears(st) == removeUser(removeToken(st))

\* AuthProvider.login, the storage after a login that failed: as it was.
on_login_failure(st) == st

\* AuthProvider.login after its await: a response with an access_token stores the
\* token and the user and sets the user state; a rejected request or a response
\* without access_token gives success false.
LoginComplete(k, ok, access_token) ==
  LET userData == [id |-> "1", email |-> authCalls[k].email] IN
  /\ authCalls[k].pc = "awaitLogin"
  /\ IF ok /\ TruthyString(access_token)
     THEN /\ storage' = setUser(setToken(storage, access_token), userData)
          /\ authState' = [authState EXCEPT !.user = userData, !.loggedOut = FALSE]
          /\ authCalls' = [authCalls EXCEPT ![k].pc = "done", ![k].success = TRUE,
                                            ![k].access_token = access_token]
     ELSE /\ storage' = on_login_failure(storage)
          /\ authState' = authState
          /\ authCalls' = [authCalls EXCEPT ![k].pc = "done", ![k].success = FALSE,
                                            ![k].rejected = ~ok,
                                            ![k].access_token =
                                               IF ok THEN access_token ELSE Empty]
  /\ lastRequest' = NoRequest
  /\ UNCHANGED <<now, notClient>>

\* AuthProvider.register up to its await: ApiClient.register sends POST /auth/register.
RegisterSend(k, email) ==
  /\ authState.phase = "mounted" /\ CallFree(k)
  /\ authCalls' = [authCalls EXCEPT ![k] =
        [IdleCall EXCEPT !.pc = "awaitRegister", !.kind = "register", !.email = email]]
  /\ lastRequest' = request(getToken, NoHeaders)
  /\ UNCHANGED <<now, notClient, storage, authState>>

\* AuthProvider.register after its await: a response with an id goes on to login,
\* which sends its request; anything else gives success false.
RegisterComplete(k, ok, id) ==
  /\ authCalls[k].pc = "awaitRegister"
  /\ IF ok /\ TruthyString(id)
     THEN /\ authCalls' = [authCalls EXCEPT ![k].pc = "awaitLogin"]
          /\ lastRequest' = request(getToken, LoginHeaders)
     ELSE /\ authCalls' = [authCalls EXCEPT ![k].pc = "done", ![k].success = FALSE]
          /\ lastRequest' = NoRequest
  /\ UNCHANGED <<now, notClient, storage, authState>>

\* AuthProvider.logout
Logout ==
  /\ authState.phase = "mounted"
  /\ storage' = removeUser(removeToken(storage))
  /\ authState' = [authState EXCEPT !.user = NoUser, !.loggedOut = TRUE]
  /\ lastRequest' = NoRequest
  /\ UNCHANGED <<now, notClient, authCalls>>

\* The promise of a login or register call is settled and its slot is free again.
AuthReturn(k) ==
  /\ authCalls[k].pc = "done"
  /\ authCalls' = [authCalls EXCEPT ![k] = IdleCall]
  /\ lastRequest' = NoRequest
  /\ UNCHANGED <<now, notClient, storage, authState>>

\* Time passes.
Tick ==
  /\ now < MaxTime
  /\ now' = now + 1
  /\ lastGet' = NoGet
  /\ lastValidate' = NoValidate
  /\ lastAuthz' = NoAuthz /\ lastOp' = NoOp
  /\ UNCHANGED <<rateVars, cache, cacheWritten, sessions, issued, sessionHist, regData,
                 brokerVars, schema_json, clientVars>>

Init ==
  /\ now = 0
  /\ RateInit /\ CacheInit /\ SessionInit /\ RegistryInit /\ BrokerInit /\ ClientInit

NextRegistry ==
  \/ \E u \in Principals, c \in ConnIds, pw \in Passwords, n \in Nonces :
        CreateConnection(u, c, pw, n)
  \/ \E u \in Principals, c \in ConnIds, pw \in Passwords \cup {<<>>}, n \in Nonces,
        a \in BOOLEAN : UpdateConnection(u, c, pw, n, a)
  \/ \E u \in Principals, c \in ConnIds : DeactivateConnection(u, c)
  \/ \E u \in Principals, c \in ConnIds, h \in Hosts, pw \in Passwords \cup {<<>>},
        n \in Nonces : EditConnection(u, c, h, pw, n)

SpecRegistry == Init /\ [][NextRegistry]_vars

NextVault ==
  \/ \E x \in Plaintexts, n \in AllNonces : Seal(x, n)
  \/ \E i \in 1..3, ch \in TextChars : UnsealCorrupted(i, ch)

SpecVault == Init /\ [][NextVault]_vars

NextTest ==
  \/ \E u \in Principals, c \in ConnIds : CreateConnection(u, c, <<1>>, 0)
  \/ \E r \in Callers, u \in Principals, c \in ConnIds : AcquireBegin(r, u, c)
  \/ \E r \in Callers : Release(r)
  \/ \E r \in Callers : Return(r)
  \/ \E u \in Principals, c \in ConnIds, up \in BOOLEAN : TestConnection(u, c, up)

SpecTest == Init /\ [][NextTest]_vars

NextSchema ==
  \/ \E u \in Principals, c \in ConnIds : CreateConnection(u, c, <<1>>, 0)
  \/ \E c \in ConnIds, i \in {"ok", "fail"}, sc \in Schemas : DetectSchema(c, i, sc)

SpecSchema == Init /\ [][NextSchema]_vars

NextAccess ==
  \/ \E u \in Principals, c \in ConnIds : CreateConnection(u, c, <<1>>, 0)
  \/ \E u \in Principals : CreateSession(u)
  \/ \E sid \in SessionIds : DeleteSession(sid)
  \/ \E u \in Principals, c \in ConnIds : Authorize(u, c)

SpecAccess == Init /\ [][NextAccess]_vars

NextPool ==
  \/ CreateConnection("u1", "c1", <<1>>, 0)
  \/ CreateConnection("u2", "c2", <<1>>, 0)
  \/ \E r \in ExecReqs, u \in Principals, c \in ConnIds : AcquireBegin(r, u, c)
  \/ \E r \in ExecReqs : AcquireGrant(r)
  \/ \E r \in ExecReqs : AcquireTimeout(r)
  \/ \E r \in ExecReqs : Release(r)
  \/ \E r \in ExecReqs : Return(r)

SpecPool == Init /\ [][NextPool]_vars

\* Concurrent acquire, execute and release calls of the owner on one record.
NextHandles ==
  \/ CreateConnection("u1", "c1", <<1>>, 0)
  \/ \E r \in ExecReqs : AcquireBegin(r, "u1", "c1")
  \/ \E r \in ExecReqs : AcquireGrant(r)
  \/ \E r \in ExecReqs : AcquireTimeout(r)
  \/ \E r \in ExecReqs : Release(r)
  \/ \E r \in ExecReqs : Return(r)
  \/ \E r \in ExecReqs, q \in Queries : ExecBegin(r, "u1", "c1", q)
  \/ \E r \in ExecReqs, o \in {"success", "QueryError", "QueryTimeout"}, v \in Payloads :
        ExecRun(r, o, v)

SpecHandles == Init /\ [][NextHandles]_vars

\* Acquire and release, each handle released once, on one record whose database goes
\* down and comes back.
NextProbe ==
  \/ CreateConnection("u1", "c1", <<1>>, 0)
  \/ \E r \in ExecReqs : AcquireBegin(r, "u1", "c1")
  \/ \E r \in ExecReqs : AcquireGrant(r)
  \/ \E r \in ExecReqs : AcquireTimeout(r)
  \/ \E r \in ExecReqs : execReq[r].pc = "acquired" /\ Release(r)
  \/ \E r \in ExecReqs : Return(r)
  \/ DatabaseDown("c1")
  \/ DatabaseUp("c1")

SpecProbe == Init /\ [][NextProbe]_vars

\* Two tenants execute statements and manage their query history.
NextHistory ==
  \/ CreateConnection("u1", "c1", <<1>>, 0)
  \/ CreateConnection("u2", "c2", <<1>>, 0)
  \/ \E r \in Callers, u \in Principals, c \in ConnIds, q \in Queries :
        ExecBegin(r, u, c, q)
  \/ \E r \in Callers, o \in {"success", "QueryError", "QueryTimeout"}, v \in Payloads :
        ExecRun(r, o, v)
  \/ \E r \in Callers : Return(r)
  \/ \E u \in Principals : DeleteQueryHistory(u)
  \/ \E u \in Principals, i \in 1..MaxHistory : DeleteSingleQueryLog(u, i)

SpecHistory == Init /\ [][NextHistory]_vars

\* The front end in one browser tab: page load, mount, and the calls of AuthProvider
\* and of the API client with their completions in any order.
NextClient ==
  \/ \E t \in Tokens \cup {Null}, e \in Emails :
        \/ PageLoad(t, <<>>)
        \/ PageLoad(t, JSON_stringify([id |-> "1", email |-> e]))
  \/ Mount
  \/ ApiRequest
  \/ \E k \in AuthCalls, e \in Emails : LoginSend(k, e)
  \/ \E k \in AuthCalls, ok \in BOOLEAN, t \in Tokens \cup {Empty} : LoginComplete(k, ok, t)
  \/ \E k \in AuthCalls, e \in Emails : RegisterSend(k, e)
  \/ \E k \in AuthCalls, ok \in BOOLEAN, id \in {"1", Empty} : RegisterComplete(k, ok, id)
  \/ Logout
  \/ \E k \in AuthCalls : AuthReturn(k)

SpecClient == Init /\ [][NextClient]_vars

\* Two tenants execute statements on their connections and remove them.
NextRemove ==
  \/ CreateConnection("u1", "c1", <<1>>, 0)
  \/ CreateConnection("u2", "c2", <<1>>, 0)
  \/ \E r \in Callers, u \in Principals, c \in ConnIds, q \in Queries :
        ExecBegin(r, u, c, q)
  \/ \E r \in Callers, o \in {"success", "QueryError"} : ExecRun(r, o, 1)
  \/ \E r \in Callers : Return(r)
  \/ \E u \in Principals, c \in ConnIds : DeactivateConnection(u, c)

SpecRemove == Init /\ [][NextRemove]_vars

\* Two callers acquire and release handles of records that their owners deactivate
\* and reactivate.
NextEvict ==
  \/ CreateConnection("u1", "c1", <<1>>, 0)
  \/ CreateConnection("u2", "c2", <<1>>, 0)
  \/ \E r \in Callers, u \in Principals, c \in ConnIds : AcquireBegin(r, u, c)
  \/ \E r \in Callers : Release(r)
  \/ \E r \in Callers : Return(r)
  \/ \E u \in Principals, c \in ConnIds : DeactivateConnection(u, c)
  \/ \E u \in Principals, c \in ConnIds, a \in BOOLEAN : UpdateConnection(u, c, <<>>, 0, a)

SpecEvict == Init /\ [][NextEvict]_vars

\* The calls on one record whose progress is at stake: each handle is released at most
\* once, and the database answers a statement with the same rows every time.
NextProgress ==
  \/ CreateConnection("u1", "c1", <<1>>, 0)
  \/ \E r \in ExecReqs : AcquireBegin(r, "u1", "c1")
  \/ \E r \in ExecReqs : AcquireGrant(r)
  \/ \E r \in ExecReqs : AcquireTimeout(r)
  \/ \E r \in ExecReqs : execReq[r].pc = "acquired" /\ Release(r)
  \/ \E r \in ExecReqs : Return(r)
  \/ \E r \in ExecReqs, q \in Queries : ExecBegin(r, "u1", "c1", q)
  \/ \E r \in ExecReqs, o \in {"success", "QueryError", "QueryTimeout"} : ExecRun(r, o, 1)

\* The progress the timeouts give: a waiting caller is granted a handle or its wait
\* runs out, and a statement that was started ends, with a result, an error or the
\* execution timeout. A holder is never obliged to release.
Progress ==
  \A r \in ExecReqs :
     /\ WF_vars(AcquireGrant(r) \/ AcquireTimeout(r))
     /\ WF_vars(\E o \in {"success", "QueryError", "QueryTimeout"} : ExecRun(r, o, 1))

SpecProgress == Init /\ [][NextProgress]_vars /\ Progress

NextBroker ==
  \/ CreateConnection("u1", "c1", <<1>>, 0)
  \/ CreateConnection("u2", "c2", <<1>>, 0)
  \/ \E u \in Principals, c \in ConnIds : Authorize(u, c)
  \/ \E r \in Callers, u \in Principals, c \in ConnIds : AcquireBegin(r, u, c)
  \/ \E r \in Callers : Release(r)
  \/ \E r \in Callers : Return(r)
  \/ \E r \in Callers, u \in Principals, c \in ConnIds, q \in Queries :
        ExecBegin(r, u, c, q)
  \/ \E r \in Callers, o \in {"success", "QueryError", "QueryTimeout"}, v \in Payloads :
        ExecRun(r, o, v)

SpecBroker == Init /\ [][NextBroker]_vars

NextExec ==
  \/ CreateConnection("u1", "c1", <<1>>, 0)
  \/ CreateConnection("u2", "c2", <<1>>, 0)
  \/ \E r \in Reqs, u \in Principals, c \in ConnIds, q \in Queries :
        ExecBegin(r, u, c, q)
  \/ \E r \in Reqs, o \in {"success", "QueryError", "QueryTimeout"}, v \in Payloads :
        ExecRun(r, o, v)
  \/ \E r \in Reqs : Return(r)
  \/ Tick

SpecExec == Init /\ [][NextExec]_vars

NextSession ==
  \/ Tick
  \/ \E u \in Principals : CreateSession(u)
  \/ \E sid \in SessionIds : ValidateSession(sid)
  \/ \E sid \in SessionIds : RefreshSession(sid)
  \/ \E sid \in SessionIds : DeleteSession(sid)
  \/ CleanupExpiredSessions
  \/ \E sid \in SessionIds : SessionTtlReclaim(sid)

SpecSession == Init /\ [][NextSession]_vars

NextCache ==
  \/ Tick
  \/ \E u \in Principals, c \in ConnIds, q \in Queries, v \in Payloads : SetCache(u, c, q, v)
  \/ \E u \in Principals, c \in ConnIds, q \in Queries : GetCache(u, c, q)
  \/ \E k \in CacheKeys : DeleteCache(k)
  \/ \E u \in Principals : ClearUserCache(u)
  \/ CleanupExpiredCache
  \/ \E k \in CacheKeys : TtlReclaim(k)

SpecCache == Init /\ [][NextCache]_vars

\* Calls of the rate limiter that do not overlap: one call at a time, each within one
\* clock value.
NextRateSeq ==
  \/ NoAdmitInFlight /\ Tick
  \/ \E r \in Reqs, u \in Principals : NoAdmitInFlight /\ AdmitCheck(r, u)
  \/ \E r \in Reqs : AdmitIncrement(r)
  \/ \E r \in Reqs : AdmitReturn(r)
  \/ CleanupOldWindows

SpecRateSeq == Init /\ [][NextRateSeq]_vars

\* Calls of the rate limiter in any interleaving.
NextRate ==
  \/ Tick
  \/ \E r \in Reqs, u \in Principals : AdmitCheck(r, u)
  \/ \E r \in Reqs : AdmitIncrement(r)
  \/ \E r \in Reqs : AdmitReturn(r)
  \/ CleanupOldWindows

SpecRate == Init /\ [][NextRate]_vars

Next == NextRate

Spec == Init /\ [][Next]_vars

(***************************************************************************)
(* Claims                                                                  *)
(***************************************************************************)

C9_SessionValidity ==
  lastValidate.called =>
    LET h == sessionHist[lastValidate.sid] IN
    IF h.created /\ ~h.revoked /\ now < h.expires_at
    THEN lastValidate.result \in {h.user_id, Invalid}
    ELSE lastValidate.result = Invalid

\* validate answers invalid for a revoked session and the session was valid before.
C9_Witness ==
  /\ lastValidate.called /\ lastValidate.result = Invalid
  /\ sessionHist[lastValidate.sid].revoked
  /\ now < sessionHist[lastValidate.sid].expires_at

\* C1: tenant isolation. A caller that is not the owner of the connection record it
\* names never holds a handle of that record and never gets a result from it, authorize
\* never answers allow to a principal that is not the owner, and the cache has no
\* entry under a principal's key for a connection of another principal.
C1_TenantIsolation ==
  /\ \A r \in ExecReqs :
        LET c == execReq[r].conn IN
        (execReq[r].pc # "idle" /\ connections[c].exists
           /\ connections[c].user_id # execReq[r].user)
        => /\ execReq[r].pc \notin {"acquired", "released"}
           /\ r \notin pool[c].out
           /\ execReq[r].status # "success"
           /\ execReq[r].payload = Absent
  /\ (lastAuthz.called /\ connections[lastAuthz.conn].exists
        /\ connections[lastAuthz.conn].user_id # lastAuthz.user)
     => lastAuthz.decision # "allow"
  /\ \A u \in Principals, c \in ConnIds, q \in Queries :
        (connections[c].exists /\ connections[c].user_id # u)
        => /\ ~cache[CacheKey(u, c, q)].present
           /\ get_cache(CacheKey(u, c, q)) = Absent

\* A principal was refused on the record of another, by acquire and by authorize,
\* while the owner holds a handle and has a cached result.
C1_Witness ==
  \E r1, r2 \in ExecReqs, c \in ConnIds, q \in Queries :
     /\ connections[c].exists /\ connections[c].user_id = "u2"
     /\ execReq[r1].user = "u1" /\ execReq[r1].conn = c
     /\ execReq[r1].status = "AccessDenied"
     /\ execReq[r2].user = "u2" /\ execReq[r2].conn = c /\ execReq[r2].pc = "acquired"
     /\ cache[CacheKey("u2", c, q)].present
     /\ lastAuthz.called /\ lastAuthz.user = "u1" /\ lastAuthz.conn = c
     /\ lastAuthz.decision = "deny"

C5_SecondFromCache ==
  \A r \in ExecReqs :
     (execReq[r].kind = "execute" /\ execReq[r].expectHit)
     => /\ execReq[r].pc = "done"
        /\ execReq[r].hit
        /\ ~execReq[r].contacted
        /\ execReq[r].payload = execReq[r].expectPayload

\* C6: every execute attempt that has completed appended exactly one query_history
\* record, served from the cache or from the database, succeeded or failed.
C6_OneRecordPerAttempt ==
  \A r \in ExecReqs :
     (execReq[r].kind = "execute" /\ execReq[r].pc = "done") => execReq[r].logged = 1

C10_FailsClosed ==
  lastAuthz.called /\ (lastAuthz.missing \/ lastAuthz.revoked)
     => lastAuthz.decision = "deny"

\* C11: when introspection fails, discover returns the snapshot last persisted on the
\* record if there is one, and fails only when there is none.
C11_SchemaFallback ==
  (lastOp.op = "discover" /\ lastOp.failed)
  => IF lastOp.prior # Absent
     THEN lastOp.status = "success" /\ lastOp.result = lastOp.prior
     ELSE lastOp.status # "success"

C13_NoExistenceLeak ==
  \E kind \in {"AccessDenied", "NotFound"} :
     \A r \in ExecReqs :
        (execReq[r].kind = "acquire" /\ execReq[r].pc = "done"
           /\ (~connections[execReq[r].conn].exists
                 \/ connections[execReq[r].conn].user_id # execReq[r].user))
        => execReq[r].status = kind

C16_AtMostNAllowed ==
  \A u \in Principals, w \in Times : rate_limits[u][w] <= RateLimitRequests

\* C17: a denied admit consumes a slot: once the admit calls of a principal in the
\* current window have all returned, allowed or denied, the counter of the window
\* equals their number.
C17_DenyConsumesSlot ==
  NoAdmitInFlight
  => \A u \in Principals :
        rate_limits[u][WindowStart(now)] = admitCalls[u][WindowStart(now)]

\* C18: execute authorizes on every call before it consults the cache: a call of
\* execute that hands a payload to its caller, from the cache or from the database,
\* has itself made the access decision for the principal and the connection, and the
\* decision was allow.
C18_AuthorizeBeforeCache ==
  \A r \in ExecReqs :
     (execReq[r].kind = "execute" /\ execReq[r].payload # Absent)
     => execReq[r].authz = "allow"

C25_HistoryImmutable ==
  [][/\ Len(query_history') >= Len(query_history)
     /\ \A i \in 1..Len(query_history) : query_history'[i] = query_history[i]]_vars

C27_BearerOnEveryRequest ==
  lastRequest.sent
  => IF TruthyString(lastRequest.token)
     THEN /\ "Authorization" \in DOMAIN lastRequest.headers
          /\ lastRequest.headers["Authorization"] = <<"Bearer", lastRequest.token>>
          /\ "Content-Type" \in DOMAIN lastRequest.headers
     ELSE "Authorization" \notin DOMAIN lastRequest.headers

\* C28: in every state reached through mount, login, register and logout, whatever
\* the order of their completions, isAuthenticated (the user state is set) implies
\* that an auth token is stored; and on mount the user state is restored only when
\* both a token and a saved user are present, to that saved user.
C28_AuthenticatedHasToken ==
  /\ [](authState.user # NoUser => TruthyString(storage.auth_token))
  /\ [][(authState.phase = "rendered" /\ authState'.phase = "mounted")
         => /\ authState'.user # NoUser
               <=> (TruthyString(storage.auth_token) /\ storage.user # <<>>)
            /\ authState'.user # NoUser => authState'.user = JSON_parse(storage.user)]_vars

\* A register call completed with success while a login is still awaited: the user
\* state is set and the token of the completed login is stored.
C28_Witness ==
  /\ authState.user = [id |-> "1", email |-> "b@x.io"]
  /\ storage.auth_token = "t2"
  /\ \E k1, k2 \in AuthCalls :
        /\ authCalls[k1].pc = "done" /\ authCalls[k1].success
        /\ authCalls[k1].kind = "register"
        /\ authCalls[k2].pc = "awaitLogin"

\* C29: after logout, until a login completes, the stored token and the stored user
\* are absent, isAuthenticated is false, and a request the API client sends carries
\* no Authorization header.
C29_LogoutClears ==
  authState.loggedOut
  => /\ storage.auth_token = Null /\ storage.user = <<>>
     /\ authState.user = NoUser
     /\ lastRequest.sent => "Authorization" \notin DOMAIN lastRequest.headers

\* After a logout, with a login begun before it still awaited, the API client has
\* sent a request.
C29_Witness ==
  /\ authState.loggedOut /\ lastRequest.sent
  /\ "Content-Type" \in DOMAIN lastRequest.headers
  /\ lastRequest.headers["Content-Type"] = <<"application/json">>
  /\ \E k \in AuthCalls : authCalls[k].pc = "awaitLogin" /\ authCalls[k].kind = "login"

\* C30: a login attempt that fails, its request rejected or its response without an
\* access_token, returns success false and leaves the stored token, the stored user
\* and the user state exactly as they were; a register call returns success true only
\* at the end of a login that succeeded, with the token and the user stored.
C30_FailedLoginNoEffect ==
  /\ [](\A k \in AuthCalls :
          (authCalls[k].pc = "done"
             /\ (authCalls[k].rejected \/ ~TruthyString(authCalls[k].access_token)))
          => ~authCalls[k].success)
  /\ [][\A k \in AuthCalls :
          /\ (authCalls[k].pc = "awaitLogin" /\ authCalls'[k].pc = "done"
                 /\ ~authCalls'[k].success)
             => storage' = storage /\ authState' = authState
          /\ (authCalls[k].pc # "done" /\ authCalls'[k].pc = "done"
                 /\ authCalls'[k].kind = "register" /\ authCalls'[k].success)
             => /\ authCalls[k].pc = "awaitLogin"
                /\ storage'.auth_token = authCalls'[k].access_token
                /\ TruthyString(storage'.auth_token)
                /\ authState'.user = [id |-> "1", email |-> authCalls[k].email]
                /\ storage'.user = JSON_stringify(authState'.user)]_vars

\* A login whose response carried no access_token has returned success false on a
\* page that is authenticated with a stored token.
C30_Witness ==
  /\ storage.auth_token = "t1" /\ authState.user # NoUser
  /\ \E k \in AuthCalls :
        /\ authCalls[k].pc = "done" /\ authCalls[k].kind = "login"
        /\ ~authCalls[k].success /\ ~authCalls[k].rejected

=============================================================================
